---- MODULE Spec2Model ----
(***************************************************************************)
(* pyDynamo: classification of dendrite branches across a time series of   *)
(* tree snapshots (addedSubtractedTransitioned) and the filopodium length  *)
(* and motility calculation built on it (motility).                        *)
(*                                                                         *)
(* A snapshot (Tree) is a record                                           *)
(*   root         : TRUE iff rootPoint is not None                         *)
(*   rootAnn      : annotation of the soma                                 *)
(*   rootChildren : ids of rootPoint.children, in order                    *)
(*   order        : ids of tree.branches, in order                         *)
(*   br           : id |-> Branch                                          *)
(* and a Branch is a record                                                *)
(*   parent, at   : the parent point: point `at` of branch `parent`, or    *)
(*                  the soma when parent = SOMA                            *)
(*   segs         : world length of the edge that ends in each point       *)
(*   anns         : annotation of each point                               *)
(*   children     : for each point, the ids of point.children, in order    *)
(* Lengths are integers (world units); indices are 0-based as in the code. *)
(***************************************************************************)
EXTENDS Integers, Sequences, FiniteSets, TLC

\* ------------------------------------------------------------ generic helpers
Range(s) == {s[i] : i \in DOMAIN s}

\* s[1] + ... + s[k]
RECURSIVE SumTo(_, _)
SumTo(s, k) == IF k = 0 THEN 0 ELSE s[k] + SumTo(s, k - 1)

RECURSIVE SortedSeq(_)
SortedSeq(S) ==
    IF S = {} THEN << >>
    ELSE LET m == CHOOSE x \in S : \A y \in S : x <= y
         IN  <<m>> \o SortedSeq(S \ {m})

\* list.index(x) as a 0-based position; -1 stands for the ValueError of a miss
IndexOf(s, x) ==
    IF x \in Range(s)
    THEN (CHOOSE i \in DOMAIN s : s[i] = x /\ \A j \in DOMAIN s : s[j] = x => i <= j) - 1
    ELSE -1

\* ------------------------------------------------------------ FiloType (ordered enum)
ABSENT == 0
TERMINAL == 1
INTERSTITIAL == 2
BRANCH_WITH_TERMINAL == 3
BRANCH_WITH_INTERSTITIAL == 4
BRANCH_ONLY == 5

\* np.nan, kept apart from every length and every difference of lengths
NaN == -1000

SOMA == 0

\* ------------------------------------------------------------ Branch / Point model
NumPoints(b) == Len(b.segs)

isEmpty(b) == NumPoints(b) = 0

hasChildren(b) == \E k \in DOMAIN b.children : Len(b.children[k]) > 0

\* annotation of branch.parentPoint
parentAnn(T, b) == IF b.parent = SOMA THEN T.rootAnn ELSE T.br[b.parent].anns[b.at]

\* annotations of [branch.parentPoint] + branch.points
pointsWithRootAnns(T, b) == <<parentAnn(T, b)>> \o b.anns

\* index (0-based) of the last point whose label contains the text, or -1
lastPointWithLabel(anns, label) ==
    LET hits == {i \in DOMAIN anns : anns[i] = label}
    IN  IF hits = {} THEN -1 ELSE (CHOOSE i \in hits : \A j \in hits : j <= i) - 1

isAxon(T, b) == lastPointWithLabel(pointsWithRootAnns(T, b), "axon") >= 0

isBasal(T, b) == lastPointWithLabel(pointsWithRootAnns(T, b), "basal") >= 0

\* 1-based index of the last own point that has children, 0 if none
lastPointWithChildren(b) ==
    LET has == {k \in DOMAIN b.children : Len(b.children[k]) > 0}
    IN  IF has = {} THEN 0 ELSE CHOOSE k \in has : \A j \in has : j <= k

\* (totalLength, totalLengthToLastBranch)
worldLengths(b) ==
    <<SumTo(b.segs, NumPoints(b)), SumTo(b.segs, lastPointWithChildren(b))>>

\* cumulative length at each own point (1-based here, pointIdx + 1)
cumulativeWorldLengths(b) == [k \in DOMAIN b.segs |-> SumTo(b.segs, k)]

\* (isFilo, length)
isFilo(b, maxLength) ==
    IF hasChildren(b) \/ isEmpty(b) THEN <<FALSE, 0>>
    ELSE <<worldLengths(b)[1] <= maxLength, worldLengths(b)[1]>>

\* Python None, as returned by Tree.getBranchByID for an id the tree does not list
None == -1

getBranchByID(T, id) == IF id \in Range(T.order) THEN id ELSE None

\* Branch.indexInParent: position in the snapshot's own branch list (-1: not there)
indexInParent(T, id) == IndexOf(T.order, id)

sortedBranchIDList(ts) ==
    SortedSeq(UNION {Range(ts[i].order) : i \in DOMAIN ts})

\* ------------------------------------------------------------ classifier
\* The accumulator of one snapshot's classification: row treeIdx of filoTypes (ft)
\* and of masterNodes (mn), the exception raised, if any (err), and a log of
\* the cells written (writes: <<matrix, treeIdx, branch id, column>>) and of the
\* indices stored in master-node lists (stored: <<treeIdx, id of the branch the
\* index was taken from, index>>).
Raised(st) == st.err # ""

setFiloType(st, treeIdx, id, col, v) ==
    [st EXCEPT !.ft[col] = v,
               !.writes = @ \cup {<<"filoTypes", treeIdx, id, col>>}]

\* masterNodes[treeIdx][col] = [index of each branch of `of`]; refs is the set of
\* <<branch id, index>> pairs the list is built from
setMasterNodes(st, treeIdx, id, col, refs) ==
    IF \E r \in refs : r[2] < 0
    THEN [st EXCEPT !.err = "ValueError"]
    ELSE [st EXCEPT !.mn[col] = {r[2] : r \in refs},
                    !.writes = @ \cup {<<"masterNodes", treeIdx, id, col>>},
                    !.stored = @ \cup {<<treeIdx, r[1], r[2]>> : r \in refs}]

\* [b.indexInParent() for b in point.children]
childRefs(T, kids) == {<<kids[j], indexInParent(T, kids[j])>> : j \in DOMAIN kids}

\* lines 139-145: turn the TERMINAL cells of the children of points 1..k into
\* INTERSTITIAL; kids is the list of those children, i the position in it
RECURSIVE fixupPrevious(_, _, _, _, _)
fixupPrevious(st, T, treeIdx, kids, i) ==
    IF i > Len(kids) \/ Raised(st) THEN st
    ELSE LET childBranchIdx == indexInParent(T, kids[i])
             next == IF childBranchIdx < 0 THEN [st EXCEPT !.err = "ValueError"]
                     ELSE IF st.ft[childBranchIdx] = TERMINAL
                          THEN setFiloType(st, treeIdx, kids[i], childBranchIdx, INTERSTITIAL)
                          ELSE st
         IN  fixupPrevious(next, T, treeIdx, kids, i + 1)

RECURSIVE childrenUpTo(_, _)
childrenUpTo(b, k) == IF k = 0 THEN << >> ELSE childrenUpTo(b, k - 1) \o b.children[k]

\* the distance measured from the start of the branch
distPointToEnd_FromStart(branch, k) == cumulativeWorldLengths(branch)[k]

\* line 120
distPointToEnd(branch, k) == worldLengths(branch)[1] - cumulativeWorldLengths(branch)[k]

\* lines 121-123
filoRole(dist, terminalDist) == IF dist < terminalDist THEN TERMINAL ELSE INTERSTITIAL

\* the excluded branch marked like a lamella
excludeBranch_AsLamella(st, treeIdx, id, branchIdx) ==
    setFiloType(st, treeIdx, id, branchIdx, BRANCH_ONLY)

\* lines 92-94: an excluded branch
excludeBranch(st, treeIdx, id, branchIdx) == setFiloType(st, treeIdx, id, branchIdx, ABSENT)

\* lines 97-99: a childless branch with a lamella
lamellaBranch(st, treeIdx, id, branchIdx) ==
    setFiloType(st, treeIdx, id, branchIdx, BRANCH_ONLY)

\* the master node taken from the snapshot's own branch list
longBranch_LocalIndex(st, treeIdx, id, branchIdx) ==
    setMasterNodes(setFiloType(st, treeIdx, id, branchIdx, BRANCH_ONLY),
                   treeIdx, id, branchIdx, {<<id, branchIdx + 1>>})

\* lines 171-174: a long branch is its own master node
longBranch(st, treeIdx, id, branchIdx) ==
    setMasterNodes(setFiloType(st, treeIdx, id, branchIdx, BRANCH_ONLY),
                   treeIdx, id, branchIdx, {<<id, branchIdx>>})

\* the filopodium at the tip made its own master node
tipFilo_SelfAnchored(st, treeIdx, id, childBranchIdx, parentId, branchIdx) ==
    setMasterNodes(setFiloType(st, treeIdx, id, childBranchIdx, BRANCH_ONLY),
                   treeIdx, id, childBranchIdx, {<<id, childBranchIdx>>})

\* lines 128-130: the only child of the last point of its parent is marked as a
\* branch, with the parent (id parentId, column branchIdx) as its master node
tipFilo(st, treeIdx, id, childBranchIdx, parentId, branchIdx) ==
    setMasterNodes(setFiloType(st, treeIdx, id, childBranchIdx, BRANCH_ONLY),
                   treeIdx, id, childBranchIdx, {<<parentId, branchIdx>>})

RECURSIVE recursiveFiloTypes(_, _, _, _, _, _)
RECURSIVE walkChildren(_, _, _, _, _, _, _, _)
RECURSIVE walkPoints(_, _, _, _, _, _, _)

\* lines 110-135: the loop over point.children of point k (1-based) of the branch,
\* from child j on; acc = [st, force]
walkChildren(acc, ids, T, treeIdx, branchIdx, cfg, k, j) ==
    LET branch == T.br[ids[branchIdx + 1]]
        kids == branch.children[k]
    IN  IF j > Len(kids) \/ Raised(acc.st) THEN acc
        ELSE
        LET childBranch == T.br[kids[j]]
            childBranchIdx == IndexOf(ids, kids[j])
            filo == isFilo(childBranch, cfg.filoDist)
            typed == setFiloType(acc.st, treeIdx, kids[j], childBranchIdx,
                                 filoRole(distPointToEnd(branch, k), cfg.terminalDist))
            tip == IF Len(kids) = 1 /\ k = NumPoints(branch)
                   THEN tipFilo(typed, treeIdx, kids[j], childBranchIdx,
                                ids[branchIdx + 1], branchIdx)
                   ELSE typed
            next == IF NumPoints(childBranch) < 1 THEN acc
                    ELSE IF kids[j] \notin Range(ids) THEN acc
                    ELSE IF filo[1] THEN [acc EXCEPT !.st = tip]
                    ELSE [st |-> recursiveFiloTypes(acc.st, ids, T, treeIdx, childBranchIdx, cfg),
                          force |-> TRUE]
        IN  walkChildren(next, ids, T, treeIdx, branchIdx, cfg, k, j + 1)

\* lines 105-145: the loop over branch.points, from point k (1-based) on
walkPoints(acc, ids, T, treeIdx, branchIdx, cfg, k) ==
    LET branch == T.br[ids[branchIdx + 1]]
    IN  IF k > NumPoints(branch) \/ Raised(acc.st) THEN acc
        ELSE IF Len(branch.children[k]) = 0
        THEN walkPoints(acc, ids, T, treeIdx, branchIdx, cfg, k + 1)
        ELSE
        LET walked == walkChildren([acc EXCEPT !.force = FALSE],
                                   ids, T, treeIdx, branchIdx, cfg, k, 1)
            fixed == IF walked.force
                     THEN [walked EXCEPT !.st =
                               fixupPrevious(walked.st, T, treeIdx, childrenUpTo(branch, k), 1)]
                     ELSE walked
        IN  walkPoints(fixed, ids, T, treeIdx, branchIdx, cfg, k + 1)

\* lines 150-174: the branch's own role and master node, after the walk
ownRole(acc, ids, T, treeIdx, branchIdx, cfg) ==
    LET id == ids[branchIdx + 1]
        branch == T.br[id]
        totalDist == worldLengths(branch)[1] - worldLengths(branch)[2]
        last == lastPointWithChildren(branch)
        st == acc.st
    IN  IF Raised(st) THEN st
        ELSE IF totalDist > 0 /\ totalDist < cfg.filoDist
        THEN LET typed == setFiloType(st, treeIdx, id, branchIdx,
                              IF acc.force THEN BRANCH_WITH_INTERSTITIAL
                                           ELSE BRANCH_WITH_TERMINAL)
             IN  IF last > 0
                 THEN setMasterNodes(typed, treeIdx, id, branchIdx,
                                     childRefs(T, branch.children[last]))
                 ELSE typed
        ELSE IF totalDist = 0
        THEN setMasterNodes(setFiloType(st, treeIdx, id, branchIdx, BRANCH_ONLY),
                            treeIdx, id, branchIdx,
                            childRefs(T, branch.children[NumPoints(branch)]))
        ELSE longBranch(st, treeIdx, id, branchIdx)

\* the branch is excluded: empty, or an axon or a basal dendrite that is left out
isExcluded(T, branch, cfg) ==
    \/ isEmpty(branch)
    \/ cfg.excludeAxon /\ isAxon(T, branch)
    \/ cfg.excludeBasal /\ isBasal(T, branch)

\* a childless branch with a lamella label
isLamella(T, branch) ==
    ~hasChildren(branch) /\ lastPointWithLabel(pointsWithRootAnns(T, branch), "lam") >= 0

recursiveFiloTypes(st, ids, T, treeIdx, branchIdx, cfg) ==
    LET id == ids[branchIdx + 1]
        branch == T.br[id]
    IN  IF Raised(st) THEN st
        ELSE IF getBranchByID(T, id) = None
        THEN setFiloType(st, treeIdx, id, branchIdx, ABSENT)
        ELSE IF isExcluded(T, branch, cfg)
        THEN excludeBranch(st, treeIdx, id, branchIdx)
        ELSE IF isLamella(T, branch)
        THEN lamellaBranch(st, treeIdx, id, branchIdx)
        ELSE ownRole(walkPoints([st |-> st, force |-> FALSE],
                                ids, T, treeIdx, branchIdx, cfg, 1),
                     ids, T, treeIdx, branchIdx, cfg)

\* lines 51-56: the loop over treeRoot.children, from child j on
RECURSIVE classifyRootChildren(_, _, _, _, _, _)
classifyRootChildren(st, ids, T, treeIdx, cfg, j) ==
    IF j > Len(T.rootChildren) \/ Raised(st) THEN st
    ELSE LET branchIdx == IndexOf(ids, T.rootChildren[j])
             next == IF branchIdx < 0 THEN [st EXCEPT !.err = "ValueError"]
                     ELSE recursiveFiloTypes(st, ids, T, treeIdx, branchIdx, cfg)
         IN  classifyRootChildren(next, ids, T, treeIdx, cfg, j + 1)

\* lines 47-56: one iteration of the loop over trees
classifyTree(st, ids, T, treeIdx, cfg) ==
    IF Len(T.order) > 0 /\ T.root
    THEN classifyRootChildren(st, ids, T, treeIdx, cfg, 1)
    ELSE st

\* ------------------------------------------------------------ change detector
filoExists(role) == role > ABSENT

\* the comparison with BRANCH_ONLY lost (the precedence slip line 59 warns of)
filos_Unbounded(role) == filoExists(role)

filos(role) == filoExists(role) /\ role < BRANCH_ONLY

branches(role) == role > TERMINAL

branchWithFilo(role) == branches(role) /\ filos(role)

justBranches(role) == role = BRANCH_ONLY

\* line 67, one cell
addedCell(before, after) ==
    \/ ~filoExists(before) /\ filos(after)
    \/ justBranches(before) /\ branchWithFilo(after)

\* line 68, one cell
subtractedCell(before, after) ==
    \/ filos(before) /\ ~filoExists(after)
    \/ branchWithFilo(before) /\ justBranches(after)

\* line 69, one cell
transitionedCell(before, after) ==
    filos(before) /\ ~branches(before) /\ branches(after)

\* any difference between the two sets taken for a change
masterChangedCell_AnyDifference(l1, l2) == l1 # l2

\* line 183, one cell
masterChangedCell(l1, l2) == Cardinality(l2) > 0 /\ Cardinality(l1 \cap l2) = 0

fillMasterChanged(nTrees, nBranches, mn) ==
    [t \in 0 .. nTrees - 2 |->
        [b \in 0 .. nBranches - 1 |-> masterChangedCell(mn[t][b], mn[t + 1][b])]]

\* the mask is left as the roles made it
clearWhereChanged_Kept(cell, changed) == cell

\* lines 72-73: mask[masterChanged] = False, one cell
clearWhereChanged(cell, changed) == IF changed THEN FALSE ELSE cell

\* the exception that ends the loop over trees: that of the first tree that raises
RECURSIVE firstError(_, _)
firstError(rows, t) ==
    IF t > Len(rows) THEN ""
    ELSE IF Raised(rows[t]) THEN rows[t].err
    ELSE firstError(rows, t + 1)

\* lines 47-56: the loop over trees, from tree t (1-based) on; the result is the
\* sequence of the rows of the trees. A tree that raises ends the loop: the rows
\* of the trees after it are left as they were made.
RECURSIVE classifyTrees(_, _, _, _, _)
classifyTrees(row0, ids, ts, cfg, t) ==
    IF t > Len(ts) THEN << >>
    ELSE LET row == classifyTree(row0, ids, ts[t], t - 1, cfg)
         IN  <<row>> \o (IF Raised(row) THEN [k \in 1 .. Len(ts) - t |-> row0]
                         ELSE classifyTrees(row0, ids, ts, cfg, t + 1))

\* what a process that has not called the classifier holds of its matrices
NothingLeft == [ft |-> << >>, mn |-> << >>]

\* a row of an earlier call's matrices taken over, where it has the same columns
newRow_Reused(left, cols) ==
    [ft |-> IF DOMAIN left.ft = cols THEN left.ft ELSE [b \in cols |-> ABSENT],
     mn |-> IF DOMAIN left.mn = cols THEN left.mn ELSE [b \in cols |-> {}],
     err |-> "", writes |-> {}, stored |-> {}]

\* lines 37-45: a row of the output matrices as they are made, all ABSENT and all
\* empty lists, whatever an earlier call left (left: the last row of its filoTypes
\* and masterNodes)
newRow(left, cols) ==
    [ft |-> [b \in cols |-> ABSENT], mn |-> [b \in cols |-> {}],
     err |-> "", writes |-> {}, stored |-> {}]

\* lines 66-75: the event masks of the roles ft, cleared where changed holds, and
\* the tuple returned
outputsOf(nTrees, ids, done, ft, changed, mn) ==
    LET cols == 0 .. Len(ids) - 1
    IN  [raised |-> firstError(done, 1),
         branchIDList |-> ids,
         filoTypes |-> ft,
         added |-> [t \in 0 .. nTrees - 2 |-> [b \in cols |->
                      clearWhereChanged(addedCell(ft[t][b], ft[t + 1][b]), changed[t][b])]],
         subtracted |-> [t \in 0 .. nTrees - 2 |-> [b \in cols |->
                      clearWhereChanged(subtractedCell(ft[t][b], ft[t + 1][b]), changed[t][b])]],
         transitioned |-> [t \in 0 .. nTrees - 2 |-> [b \in cols |->
                      transitionedCell(ft[t][b], ft[t + 1][b])]],
         masterChanged |-> changed,
         masterNodes |-> mn,
         writes |-> UNION {done[t].writes : t \in 1 .. nTrees},
         stored |-> UNION {done[t].stored : t \in 1 .. nTrees}]

\* lines 58-75: the masks and the outputs, from the rows the loop over trees left
\* (done[t + 1]: the row of tree t)
masksOf(nTrees, ids, done) ==
    LET ft == [t \in 0 .. nTrees - 1 |-> done[t + 1].ft]
        mn == [t \in 0 .. nTrees - 1 |-> done[t + 1].mn]
    IN  outputsOf(nTrees, ids, done, ft, fillMasterChanged(nTrees, Len(ids), mn), mn)

\* The whole of addedSubtractedTransitioned, called in a process where an earlier
\* call left `left`: the outputs, plus raised and the logs.
addedSubtractedTransitionedAfter(left, ts, cfg) ==
    masksOf(Len(ts), sortedBranchIDList(ts),
            classifyTrees(newRow(left, 0 .. Len(sortedBranchIDList(ts)) - 1),
                          sortedBranchIDList(ts), ts, cfg, 1))

\* the first call of a process
addedSubtractedTransitioned(ts, cfg) == addedSubtractedTransitionedAfter(NothingLeft, ts, cfg)

\* the last row of the matrices a call returned
LeftBy(c) ==
    IF DOMAIN c.filoTypes = {} THEN NothingLeft
    ELSE LET last == CHOOSE t \in DOMAIN c.filoTypes : \A u \in DOMAIN c.filoTypes : u <= t
         IN  [ft |-> c.filoTypes[last], mn |-> c.masterNodes[last]]

\* ------------------------------------------------------------ motility
\* filoLengths[treeIdx][branchIdx] = v: an IndexError when the column is out of range
setFiloLength(st, treeIdx, id, col, v) ==
    IF col \notin DOMAIN st.fl
    THEN [st EXCEPT !.err = "IndexError",
                    !.writes = @ \cup {<<"filoLengths", treeIdx, id, col>>}]
    ELSE [st EXCEPT !.fl[col] = v,
                    !.writes = @ \cup {<<"filoLengths", treeIdx, id, col>>}]

\* lines 106-110
finalFiloLength(branch, filoDist) ==
    LET totalLength == worldLengths(branch)[1]
        totalLengthToLastBranch == worldLengths(branch)[2]
        lengthPastLastBranch == IF totalLengthToLastBranch > 0
                                THEN totalLength - totalLengthToLastBranch
                                ELSE filoDist + 1
    IN  IF lengthPastLastBranch < filoDist THEN lengthPastLastBranch ELSE 0

RECURSIVE calcFiloLengths(_, _, _, _, _)
RECURSIVE calcChildLengths(_, _, _, _, _, _)

\* lines 101-103: the recursion into the children listed in kids, from position i on
calcChildLengths(st, T, treeIdx, kids, cfg, i) ==
    IF i > Len(kids) \/ Raised(st) THEN st
    ELSE calcChildLengths(calcFiloLengths(st, T, treeIdx, kids[i], cfg),
                          T, treeIdx, kids, cfg, i + 1)

calcFiloLengths(st, T, treeIdx, id, cfg) ==
    LET branch == T.br[id]
        branchIdx == indexInParent(T, id)
        anns == pointsWithRootAnns(T, branch)
        filo == isFilo(branch, cfg.filoDist)
    IN  IF Raised(st) THEN st
        ELSE IF branchIdx < 0 THEN [st EXCEPT !.err = "ValueError"]
        ELSE IF Len(anns) < 2 THEN setFiloLength(st, treeIdx, id, branchIdx, 0)
        ELSE IF cfg.excludeAxon /\ lastPointWithLabel(anns, "axon") >= 0
        THEN setFiloLength(st, treeIdx, id, branchIdx, NaN)
        ELSE IF cfg.excludeBasal /\ lastPointWithLabel(anns, "basal") >= 0
        THEN setFiloLength(st, treeIdx, id, branchIdx, NaN)
        ELSE IF filo[1] THEN setFiloLength(st, treeIdx, id, branchIdx, filo[2])
        ELSE LET rec == calcChildLengths(st, T, treeIdx,
                                         childrenUpTo(branch, NumPoints(branch)), cfg, 1)
             IN  IF Raised(rec) THEN rec
                 ELSE setFiloLength(rec, treeIdx, id, branchIdx,
                                    finalFiloLength(branch, cfg.filoDist))

\* lines 31-34: one iteration of the loop over trees; a snapshot without a root
\* point has no .children to read
lengthsOfTree(st, T, treeIdx, cfg) ==
    IF ~T.root THEN [st EXCEPT !.err = "AttributeError"]
    ELSE calcChildLengths(st, T, treeIdx, T.rootChildren, cfg, 1)

\* lines 31-34: the loop over trees, from tree t (1-based) on; a tree that raises
\* ends the loop
RECURSIVE lengthsOfTrees(_, _, _, _)
lengthsOfTrees(row0, ts, cfg, t) ==
    IF t > Len(ts) THEN << >>
    ELSE LET row == lengthsOfTree(row0, ts[t], t - 1, cfg)
         IN  <<row>> \o (IF Raised(row) THEN [k \in 1 .. Len(ts) - t |-> row0]
                         ELSE lengthsOfTrees(row0, ts, cfg, t + 1))

\* lines 23-34 of motility: the filoLengths matrix, plus raised and the write log
calcAllFiloLengths(ts, cfg) ==
    LET nTrees == Len(ts)
        nBranches == Len(ts[nTrees].order)   \* line 25: len(trees[-1].branches)
        row0 == [fl |-> [b \in 0 .. nBranches - 1 |-> NaN], err |-> "", writes |-> {}]
        done == lengthsOfTrees(row0, ts, cfg, 1)
        rows == [t \in 0 .. nTrees - 1 |-> done[t + 1]]
    IN  [raised |-> firstError(done, 1),
         nBranches |-> nBranches,
         filoLengths |-> [t \in 0 .. nTrees - 1 |-> rows[t].fl],
         writes |-> UNION {rows[t].writes : t \in 0 .. nTrees - 1}]

\* b - a on floats
nanMinus_Swapped(a, b) == IF a = NaN \/ b = NaN THEN NaN ELSE b - a

\* a - b on floats, NaN absorbing
nanMinus(a, b) == IF a = NaN \/ b = NaN THEN NaN ELSE a - b

\* the masterChanged cells left as the difference of the lengths
rawMotilityOf_ChangedKept(nTrees, nBranches, fl, changed) ==
    [t \in 0 .. nTrees - 2 |-> [b \in 0 .. nBranches - 1 |->
        nanMinus(fl[t + 1][b], fl[t][b])]]

\* lines 36-40: rawMotility with the masterChanged cells set to NaN
rawMotilityOf(nTrees, nBranches, fl, changed) ==
    [t \in 0 .. nTrees - 2 |-> [b \in 0 .. nBranches - 1 |->
        IF changed[t][b] THEN NaN ELSE nanMinus(fl[t + 1][b], fl[t][b])]]

\* Total dendritic branch length of a snapshot, filopodia included: the lengths
\* of the listed, non-excluded branches; 0 for a snapshot without a root point
RECURSIVE tdblFrom(_, _, _)
tdblFrom(T, cfg, i) ==
    IF i > Len(T.order) THEN 0
    ELSE LET b == T.br[T.order[i]]
             counted == /\ ~isEmpty(b)
                        /\ ~(cfg.excludeAxon /\ isAxon(T, b))
                        /\ ~(cfg.excludeBasal /\ isBasal(T, b))
         IN  (IF counted THEN worldLengths(b)[1] ELSE 0) + tdblFrom(T, cfg, i + 1)

TDBL(T, cfg) == IF ~T.root THEN 0 ELSE tdblFrom(T, cfg, 1)

\* -x on floats
nanNeg(x) == IF x = NaN THEN NaN ELSE 0 - x

\* lines 43-45: with includeAS, an added cell holds the length after and a
\* subtracted cell minus the length before (subtracted is applied last)
includeAddSub(raw, fl, added, subtracted, includeAS) ==
    [t \in DOMAIN raw |-> [b \in DOMAIN raw[t] |->
        IF includeAS /\ subtracted[t][b] THEN nanNeg(fl[t][b])
        ELSE IF includeAS /\ added[t][b] THEN fl[t + 1][b]
        ELSE raw[t][b]]]

\* lines 47-48: the lengths before each transition, NaN where rawMotility is NaN
filoLengthWithNan(fl, raw) ==
    [t \in DOMAIN raw |-> [b \in DOMAIN raw[t] |->
        IF raw[t][b] = NaN THEN NaN ELSE fl[t][b]]]

\* np.nansum of the cells 0 .. b of a row: NaN cells count as 0
RECURSIVE nanSumTo(_, _)
nanSumTo(row, b) ==
    IF b < 0 THEN 0
    ELSE (IF row[b] = NaN THEN 0 ELSE row[b]) + nanSumTo(row, b - 1)

nansum(row, nBranches) == nanSumTo(row, nBranches - 1)

\* line 50: per snapshot, the number of cells with ABSENT < role < BRANCH_ONLY
nFiloOf(ft, nBranches) ==
    [t \in DOMAIN ft |->
        Cardinality({b \in 0 .. nBranches - 1 : ft[t][b] > ABSENT /\ ft[t][b] < BRANCH_ONLY})]

\* A quotient of numpy floats, kept as <<numerator, denominator>> with the
\* denominator >= 0: x/0 is inf (<<1, 0>>) or -inf (<<-1, 0>>) and 0/0 is nan
\* (<<0, 0>>), with a warning and no exception.
floatDiv(num, den) ==
    IF den = 0 THEN <<(IF num > 0 THEN 1 ELSE IF num < 0 THEN -1 ELSE 0), 0>>
    ELSE IF den < 0 THEN <<0 - num, 0 - den>>
    ELSE <<num, den>>

FloatNaN == <<0, 0>>

\* lines 36-61 of motility, given what addedSubtractedTransitioned returned (c)
\* and the filoLengths matrix (l): a boolean mask of another shape than the
\* matrix it indexes raises IndexError
motilities(ts, cfg, c, l) ==
    LET nTrees == Len(ts)
        nBranches == l.nBranches
        steps == 0 .. nTrees - 2
    IN  IF nBranches # Len(c.branchIDList)
        THEN [raised |-> "IndexError", raw |-> << >>, allTDBL |-> << >>, nFilo |-> << >>,
              rawTDBL |-> << >>, rawFilo |-> << >>, rawNFilo |-> << >>]
        ELSE LET raw == includeAddSub(
                            rawMotilityOf(nTrees, nBranches, l.filoLengths, c.masterChanged),
                            l.filoLengths, c.added, c.subtracted, cfg.includeAS)
                 withNan == filoLengthWithNan(l.filoLengths, raw)
                 tdbl == [t \in steps |-> TDBL(ts[t + 1], cfg)]
                 nFilo == nFiloOf(c.filoTypes, nBranches)
             IN  [raised |-> "",
                  raw |-> raw,
                  allTDBL |-> tdbl,
                  nFilo |-> [t \in steps |-> nFilo[t]],
                  rawTDBL |-> [t \in steps |->
                                 floatDiv(nansum(raw[t], nBranches), tdbl[t])],
                  rawFilo |-> [t \in steps |->
                                 floatDiv(nansum(raw[t], nBranches),
                                          nansum(withNan[t], nBranches))],
                  rawNFilo |-> [t \in steps |->
                                 floatDiv(nansum(raw[t], nBranches), nFilo[t])]]

\* ------------------------------------------------------------ snapshot sequences
\* Number of snapshots of a sequence
MaxTrees == 3

\* A trunk has an interior point and a last point; a side branch has one point.
TrunkGeoms == {<<15, 5>>, <<5, 15>>}

SideGeoms == {<<3>>, <<5>>, <<15>>}

\* in the plans of three branches every branch is 5 or 15 long
CarrierGeoms == {<<5>>, <<15>>}

blank(n) == [k \in 1 .. n |-> ""]

Traced(q, a, g) == [parent |-> q, at |-> a, segs |-> g, anns |-> blank(Len(g))]

\* A plan is the neuron as traced: branch i hangs off point `at` of branch
\* `parent` (an earlier branch, or 0 for the soma).
OneBranch == {<<Traced(0, 0, g)>> : g \in TrunkGeoms \cup SideGeoms}

TwoRoots == {<<Traced(0, 0, g), Traced(0, 0, h)>> : g \in TrunkGeoms, h \in SideGeoms}

TrunkWithSide ==
    {<<Traced(0, 0, g), Traced(1, a, h)>> : g \in TrunkGeoms, a \in 1 .. 2, h \in SideGeoms}

TrunkWithTwoSides ==
    {<<Traced(0, 0, g), Traced(1, a, h), Traced(1, c, k)>> :
        g \in TrunkGeoms, a \in 1 .. 2, h \in CarrierGeoms, c \in 1 .. 2, k \in CarrierGeoms}

TrunkSideAndTwig ==
    {<<Traced(0, 0, g), Traced(1, a, h), Traced(2, 1, k)>> :
        g \in TrunkGeoms, a \in 1 .. 2, h \in CarrierGeoms, k \in CarrierGeoms}

\* a trunk of three points with a child at each of the first two, and a short
\* stretch after the second
LongTrunkWithTwoSides ==
    {<<Traced(0, 0, <<5, 5, 3>>), Traced(1, 1, h), Traced(1, 2, k)>> :
        h \in CarrierGeoms, k \in CarrierGeoms}

\* a trunk whose first point lies on the soma point, a child at that point, and a
\* short stretch after it
CoincidentTrunk == {<<Traced(0, 0, <<0, 3>>), Traced(1, 1, <<5>>)>>}

Shapes ==
    OneBranch \cup TwoRoots \cup TrunkWithSide \cup TrunkWithTwoSides
        \cup TrunkSideAndTwig \cup LongTrunkWithTwoSides \cup CoincidentTrunk

\* the final point of branch i carries the label
WithLabel(p, i, lab) == [p EXCEPT ![i].anns[Len(p[i].segs)] = lab]

\* A marked plan: perhaps one label, on the final point of the trunk or of the
\* last branch, or the last branch a stray one that no snapshot lists in
\* tree.branches.
AllPlans ==
    UNION {
        {[b |-> p, stray |-> FALSE], [b |-> p, stray |-> TRUE],
         [b |-> WithLabel(p, 1, "axon"), stray |-> FALSE],
         [b |-> WithLabel(p, 1, "lam"), stray |-> FALSE]}
        \cup {[b |-> WithLabel(p, Len(p), lab), stray |-> FALSE] :
                 lab \in {"axon", "basal", "lam"}} :
        p \in Shapes}

\* ids are given in tracing order, or in the reverse of it
IdOrders(n) == {[i \in 1 .. n |-> i], [i \in 1 .. n |-> n + 1 - i]}

\* the second snapshot: the whole neuron, nothing at all, the neuron without its
\* last branch, with the last branch kept but without points, or with the last
\* branch grown
Variants == {"full", "none", "dropLast", "emptyLast", "growLast"}

\* a snapshot after the second: the whole neuron, or the neuron without its last
\* branch
LaterVariants == {"full", "dropLast"}

\* what the last branch of a grown neuron has gained in length
GrowBy == 2

\* the plan with the final segment of its last branch longer by GrowBy
Grown(p) == [p EXCEPT ![Len(p)].segs = [@ EXCEPT ![Len(@)] = @ + GrowBy]]

EmptyTree ==
    [root |-> FALSE, rootAnn |-> "", rootChildren |-> << >>, order |-> << >>, br |-> << >>]

\* the plan's branches in `keep`, in tracing order, as ids
RECURSIVE idsOf(_, _, _, _)
idsOf(p, idOf, keep, i) ==
    IF i > Len(p) THEN << >>
    ELSE (IF i \in keep THEN <<idOf[i]>> ELSE << >>) \o idsOf(p, idOf, keep, i + 1)

\* The snapshot that holds the branches `present` of the plan, those of `emptied`
\* with no points, and lists in tree.branches all but `unlisted`.
MakeTree(p, idOf, present, emptied, unlisted) ==
    LET segsOf(i) == IF i \in emptied THEN << >> ELSE p[i].segs
        ix(id) == CHOOSE i \in DOMAIN p : idOf[i] = id
    IN  [root |-> TRUE,
         rootAnn |-> "",
         rootChildren |-> idsOf(p, idOf, {i \in present : p[i].parent = 0}, 1),
         order |-> idsOf(p, idOf, present \ unlisted, 1),
         br |-> [id \in {idOf[i] : i \in present} |->
                  [parent |-> IF p[ix(id)].parent = 0 THEN SOMA ELSE idOf[p[ix(id)].parent],
                   at |-> p[ix(id)].at,
                   segs |-> segsOf(ix(id)),
                   anns |-> IF ix(id) \in emptied THEN << >> ELSE p[ix(id)].anns,
                   children |-> [k \in 1 .. Len(segsOf(ix(id))) |->
                       idsOf(p, idOf,
                             {j \in present : p[j].parent = ix(id) /\ p[j].at = k}, 1)]]]]

Snapshot(plan, idOf, v) ==
    LET p == plan.b
        all == DOMAIN p
        n == Len(p)
        unlisted == IF plan.stray THEN {n} ELSE {}
    IN  CASE v = "full" -> MakeTree(p, idOf, all, {}, unlisted)
          [] v = "none" -> EmptyTree
          [] v = "dropLast" -> MakeTree(p, idOf, all \ {n}, {}, {})
          [] v = "emptyLast" -> MakeTree(p, idOf, all, {n}, unlisted)
          [] v = "growLast" -> MakeTree(Grown(p), idOf, all, {}, unlisted)

\* the sequences of n snapshots: the first holds the whole neuron, each later one
\* a variant of it
SeqsOfLen(plan, idOf, n) ==
    {[t \in 1 .. n |-> Snapshot(plan, idOf, IF t = 1 THEN "full" ELSE vs[t])] :
        vs \in {f \in [2 .. n -> Variants] : \A t \in 3 .. n : f[t] \in LaterVariants}}

\* sequences of two to MaxTrees snapshots
TreeSeqs(plan, idOf) == UNION {SeqsOfLen(plan, idOf, n) : n \in 2 .. MaxTrees}

\* the options of motility: the usual thresholds with axon and basal dendrites
\* excluded, and thresholds that equal the short lengths of the plans, with
\* axons kept
Configs ==
    {[excludeAxon |-> TRUE, excludeBasal |-> TRUE, includeAS |-> FALSE,
      terminalDist |-> 10, filoDist |-> 10],
     [excludeAxon |-> FALSE, excludeBasal |-> TRUE, includeAS |-> TRUE,
      terminalDist |-> 5, filoDist |-> 5]}

\* ------------------------------------------------------------ Tree.reparentPoint
\* A tree with its points: branches is tree.branches (ids, in order), points the
\* ids of the points of each branch, parentPoint the point each branch hangs off
\* (None: not set), children the branches listed in point.children. Point 0 is
\* tree.rootPoint, the one point with no parentBranch.
RootPoint == 0

NoTree == [branches |-> << >>, points |-> << >>, parentPoint |-> << >>, children |-> << >>]

\* point.parentBranch (None for the root point)
parentBranchOf(t, p) ==
    IF \E b \in Range(t.branches) : p \in Range(t.points[b])
    THEN CHOOSE b \in Range(t.branches) : p \in Range(t.points[b])
    ELSE None

\* Point.indexInParent: the position of the point in its branch, from 0
pointIndexInParent(t, p) == IndexOf(t.points[parentBranchOf(t, p)], p)

isRoot(t, p) == parentBranchOf(t, p) = None

isLastInBranch(t, p) ==
    /\ ~isRoot(t, p)
    /\ pointIndexInParent(t, p) = Len(t.points[parentBranchOf(t, p)]) - 1

\* the sequence without its element x
RECURSIVE Without(_, _)
Without(q, x) ==
    IF q = << >> THEN << >>
    ELSE (IF Head(q) = x THEN << >> ELSE <<Head(q)>>) \o Without(Tail(q), x)

\* Branch.removePointLocally and Branch.addPoint: the point leaves the list of
\* points of one branch, and is appended to that of another
removePointLocally(t, b, p) == [t EXCEPT !.points[b] = Without(@, p)]

addPoint(t, b, p) == [t EXCEPT !.points[b] = Append(@, p)]

\* lines 91-94 and 105-108: the points of oldBranch from atIdx on move, one by
\* one, to the end of newBranch
RECURSIVE movePoints(_, _, _, _)
movePoints(t, oldBranch, newBranch, atIdx) ==
    IF Len(t.points[oldBranch]) > atIdx
    THEN LET toMove == t.points[oldBranch][atIdx + 1]
         IN  movePoints(addPoint(removePointLocally(t, oldBranch, toMove), newBranch, toMove),
                        oldBranch, newBranch, atIdx)
    ELSE t

\* Tree.addBranch, given a branch without points or parent
addBranch(t, b) ==
    [t EXCEPT !.branches = Append(@, b),
              !.points = (b :> << >>) @@ @,
              !.parentPoint = (b :> None) @@ @]

\* Branch.setParentPoint: the branch leaves the children of the point it hung
\* off, if any, and joins those of its new parent point
setParentPoint(t, b, newParent) ==
    LET old == t.parentPoint[b]
        left == IF old = None THEN t ELSE [t EXCEPT !.children[old] = Without(@, b)]
    IN  [left EXCEPT !.parentPoint[b] = newParent,
                     !.children[newParent] = Append(@, b)]

\* the id given to a branch made by a split
nextBranchID(t) == 1 + Cardinality(Range(t.branches))

\* line 102: the old branch is split when the point is not its first
needsSplit(atIdx) == atIdx > 0

\* Tree.reparentPoint(childPoint, newParent): <<the tree after, what the call did>>
reparentPoint(t, childPoint, newParent) ==
    IF parentBranchOf(t, childPoint) = None THEN <<t, "ignored">>
    ELSE LET oldBranch == parentBranchOf(t, childPoint)
             atIdx == pointIndexInParent(t, childPoint)
         IN  IF isLastInBranch(t, newParent) /\ ~isRoot(t, newParent)
             THEN IF parentBranchOf(t, newParent) = oldBranch
                  THEN <<t, "loops">>   \* each point taken off the branch is put back
                  ELSE <<movePoints(t, oldBranch, parentBranchOf(t, newParent), atIdx),
                         "appended">>
             ELSE IF needsSplit(atIdx)
             THEN LET newID == nextBranchID(t)
                      split == movePoints(addBranch(t, newID), oldBranch, newID, atIdx)
                  IN  <<setParentPoint(split, newID, newParent), "split">>
             ELSE <<setParentPoint(t, oldBranch, newParent), "moved">>

\* Point.flattenSubtreePoints of the root point: the points reached from it
\* through point.children and the points of those branches
RECURSIVE reachedFrom(_, _)
reachedFrom(t, seen) ==
    LET more == UNION {Range(t.points[b]) :
                          b \in UNION {Range(t.children[p]) : p \in seen}}
    IN  IF more \subseteq seen THEN seen ELSE reachedFrom(t, seen \cup more)

\* Tree.flattenPoints()
flattenPoints(t) == reachedFrom(t, {RootPoint})

\* The trees reparentPoint is tried on: a first branch of three points off the
\* root, a second of two points off a point of the first, a third of one or two
\* points off a point of the first or the second.
StartTrees ==
    {[branches |-> <<1, 2, 3>>,
      points |-> <<<<1, 2, 3>>, <<4, 5>>, third>>,
      parentPoint |-> <<RootPoint, p, q>>,
      children |-> [x \in 0 .. 7 |->
                      (IF x = RootPoint THEN <<1>> ELSE << >>)
                      \o (IF x = p THEN <<2>> ELSE << >>)
                      \o (IF x = q THEN <<3>> ELSE << >>)]] :
        p \in 1 .. 3, q \in 1 .. 5, third \in {<<6>>, <<6, 7>>}}

\* number of calls of reparentPoint in a row
MaxReparents == 1

NoCall == [n |-> 0, childPoint |-> None, newParent |-> None, before |-> NoTree, did |-> ""]

\* ------------------------------------------------------------ state machine
VARIABLES
    trees,      \* the snapshot sequence given to motility
    cfg,        \* excludeAxon, excludeBasal, includeAS, terminalDist, filoDist
    pc,         \* "start", "classified", "lengths", "done", "reclassified" or "raised"
    cls,        \* what addedSubtractedTransitioned returned, and its logs
    lens,       \* the filoLengths matrix of motility, and its log
    mot,        \* the raw motility and the aggregates motility returns
    again,      \* what a second call of addedSubtractedTransitioned returned
    rt,         \* the tree Tree.reparentPoint works on
    rcall       \* the last call of Tree.reparentPoint, and the number of calls

vars == <<trees, cfg, pc, cls, lens, mot, again, rt, rcall>>

reparentVars == <<rt, rcall>>

motilityVars == <<trees, cfg, pc, cls, lens, mot, again>>

NoClassification ==
    [raised |-> "", branchIDList |-> << >>, filoTypes |-> << >>, added |-> << >>,
     subtracted |-> << >>, transitioned |-> << >>, masterChanged |-> << >>,
     masterNodes |-> << >>, writes |-> {}, stored |-> {}]

NoLengths == [raised |-> "", nBranches |-> 0, filoLengths |-> << >>, writes |-> {}]

NoMotilities ==
    [raised |-> "", raw |-> << >>, allTDBL |-> << >>, nFilo |-> << >>,
     rawTDBL |-> << >>, rawFilo |-> << >>, rawNFilo |-> << >>]

Init ==
    /\ \E plan \in AllPlans : \E idOf \in IdOrders(Len(plan.b)) :
         trees \in TreeSeqs(plan, idOf)
    /\ cfg \in Configs
    /\ pc = "start"
    /\ cls = NoClassification
    /\ lens = NoLengths
    /\ mot = NoMotilities
    /\ again = NoClassification
    /\ rt = NoTree
    /\ rcall = NoCall

\* motility, line 20: the call of addedSubtractedTransitioned
Classify ==
    /\ pc = "start"
    /\ cls' = addedSubtractedTransitioned(trees, cfg)
    /\ pc' = IF cls'.raised # "" THEN "raised" ELSE "classified"
    /\ UNCHANGED <<trees, cfg, lens, mot, again>>
    /\ UNCHANGED reparentVars

\* motility, lines 23-34: the filoLengths matrix
FiloLengths ==
    /\ pc = "classified"
    /\ lens' = calcAllFiloLengths(trees, cfg)
    /\ pc' = IF lens'.raised # "" THEN "raised" ELSE "lengths"
    /\ UNCHANGED <<trees, cfg, cls, mot, again>>
    /\ UNCHANGED reparentVars

\* motility, lines 36-61: raw motility, the masks, the aggregates
Motilities ==
    /\ pc = "lengths"
    /\ mot' = motilities(trees, cfg, cls, lens)
    /\ pc' = IF mot'.raised # "" THEN "raised" ELSE "done"
    /\ UNCHANGED <<trees, cfg, cls, lens, again>>
    /\ UNCHANGED reparentVars

\* a second call of addedSubtractedTransitioned on the same snapshots with the
\* same options, after the first returned
Reclassify ==
    /\ pc = "classified"
    /\ again' = addedSubtractedTransitionedAfter(LeftBy(cls), trees, cfg)
    /\ pc' = "reclassified"
    /\ UNCHANGED <<trees, cfg, cls, lens, mot>>
    /\ UNCHANGED reparentVars

Next == Classify \/ FiloLengths \/ Motilities \/ Reclassify

Spec == Init /\ [][Next]_vars

\* Tree.reparentPoint called on a tree, MaxReparents times in a row
InitReparent ==
    /\ rt \in StartTrees
    /\ rcall = NoCall
    /\ trees = << >> /\ cfg = [excludeAxon |-> TRUE, excludeBasal |-> TRUE, includeAS |-> FALSE, terminalDist |-> 10, filoDist |-> 10]
    /\ pc = "reparent"
    /\ cls = NoClassification /\ lens = NoLengths
    /\ mot = NoMotilities /\ again = NoClassification

Reparent ==
    /\ rcall.n < MaxReparents
    /\ rcall.did # "loops"
    /\ \E childPoint \in 0 .. 7 : \E newParent \in 0 .. 7 :
          LET r == reparentPoint(rt, childPoint, newParent)
          IN  /\ rt' = r[1]
              /\ rcall' = [n |-> rcall.n + 1, childPoint |-> childPoint,
                           newParent |-> newParent, before |-> rt, did |-> r[2]]
    /\ UNCHANGED motilityVars

NextReparent == Reparent

SpecReparent == InitReparent /\ [][NextReparent]_vars

\* ------------------------------------------------------------ properties
\* addedSubtractedTransitioned has returned (without raising)
Classified == pc # "start" /\ cls.raised = ""

Transitions == 0 .. Len(trees) - 2

Columns == 0 .. Len(cls.branchIDList) - 1

\* the column of a branch id in the output matrices
GlobalIdx(id) == IndexOf(cls.branchIDList, id)

\* snapshot t (0-based, as treeIdx)
TreeAt(t) == trees[t + 1]

\* C1: after addedSubtractedTransitioned, wherever masterChanged[t,b] is true both
\* added[t,b] and subtracted[t,b] are false.
C1_MasterChangedClearsEvents ==
    Classified =>
        \A t \in Transitions : \A b \in Columns :
            cls.masterChanged[t][b] => ~cls.added[t][b] /\ ~cls.subtracted[t][b]

\* a masterChanged cell whose roles alone would have made it an added or a
\* subtracted cell
C1_Witness ==
    /\ Classified
    /\ \E t \in Transitions : \E b \in Columns :
          /\ cls.masterChanged[t][b]
          /\ \/ addedCell(cls.filoTypes[t][b], cls.filoTypes[t + 1][b])
             \/ subtractedCell(cls.filoTypes[t][b], cls.filoTypes[t + 1][b])

\* C2: added[t,b] and subtracted[t,b] are never both true, whatever the roles of
\* the branch at t and t+1.
C2_AddedSubtractedExclusive ==
    Classified =>
        \A t \in Transitions : \A b \in Columns :
            ~(cls.added[t][b] /\ cls.subtracted[t][b])

\* a run that reports an added cell and a subtracted cell
C2_Witness ==
    /\ Classified
    /\ \E t \in Transitions : \E b \in Columns : cls.added[t][b]
    /\ \E t \in Transitions : \E b \in Columns : cls.subtracted[t][b]

\* ---- helpers of the statements about single branches
Snapshots == 0 .. Len(trees) - 1

Length(b) == SumTo(b.segs, Len(b.segs))

\* a non-empty, non-excluded branch of the snapshot's branch list, with no
\* children and the given total length
ChildlessOfLength(T, id, len) ==
    /\ id \in Range(T.order)
    /\ ~isEmpty(T.br[id])
    /\ ~isExcluded(T, T.br[id], cfg)
    /\ ~hasChildren(T.br[id])
    /\ Length(T.br[id]) = len

\* none of the branch's points, nor its parent point, carries a "lam" label
NoLamella(T, id) == \A k \in DOMAIN pointsWithRootAnns(T, T.br[id]) :
                       pointsWithRootAnns(T, T.br[id])[k] # "lam"

\* distance from the point the branch hangs off to the end of its parent branch
EndDistance(T, id) ==
    LET par == T.br[T.br[id].parent]
    IN  Length(par) - SumTo(par.segs, T.br[id].at)

\* the branch is the only child of the last point of its parent branch
OnlyChildAtLast(T, id) ==
    LET b == T.br[id]
    IN  /\ b.parent # SOMA
        /\ b.at = NumPoints(T.br[b.parent])
        /\ Len(T.br[b.parent].children[b.at]) = 1

\* the classifier walks the points of the branch: the branch is listed and not
\* excluded, and hangs off the soma or off a branch whose points are walked
RECURSIVE Walked(_, _)
Walked(T, id) ==
    /\ id \in Range(T.order)
    /\ ~isExcluded(T, T.br[id], cfg)
    /\ T.br[id].parent # SOMA => Walked(T, T.br[id].parent)

\* the classifier reaches the branch: it hangs off the soma or off a walked branch
Reached(T, id) == T.br[id].parent # SOMA => Walked(T, T.br[id].parent)

Role(t, id) == cls.filoTypes[t][GlobalIdx(id)]

\* C3: three snapshots of a trunk with one child filopodium of length 3 (filoDist
\* 10, terminalDist 10), the filopodium present at t=0 and t=1 and gone at t=2:
\* the run raises nothing, the filopodium's column has added = [F, F] and
\* subtracted = [F, T], and its filo lengths are [3, 3, NaN], whichever point of
\* the trunk it hangs off.
C3_Scenario(a, f) ==
    /\ Len(trees) = 3 /\ cfg.filoDist = 10 /\ cfg.terminalDist = 10
    /\ trees[2] = trees[1]
    /\ a # f /\ DOMAIN trees[1].br = {a, f} /\ Range(trees[1].order) = {a, f}
    /\ trees[1].br[a].parent = SOMA /\ trees[1].br[f].parent = a
    /\ Length(trees[1].br[f]) = 3 /\ ~hasChildren(trees[1].br[f])
    /\ \A id \in {a, f} : \A k \in DOMAIN trees[1].br[id].anns : trees[1].br[id].anns[k] = ""
    /\ trees[3].root /\ DOMAIN trees[3].br = {a} /\ Range(trees[3].order) = {a}

C3_FilopodiumScenario ==
    \A a \in DOMAIN trees[1].br : \A f \in DOMAIN trees[1].br :
        C3_Scenario(a, f) /\ pc \in {"lengths", "raised"} =>
            /\ pc = "lengths"
            /\ ~cls.added[0][GlobalIdx(f)] /\ ~cls.added[1][GlobalIdx(f)]
            /\ ~cls.subtracted[0][GlobalIdx(f)] /\ cls.subtracted[1][GlobalIdx(f)]
            /\ GlobalIdx(f) \in DOMAIN lens.filoLengths[0]
            /\ lens.filoLengths[0][GlobalIdx(f)] = 3
            /\ lens.filoLengths[1][GlobalIdx(f)] = 3
            /\ lens.filoLengths[2][GlobalIdx(f)] = NaN

C5_AsClaimed ==
    Classified /\ cfg.filoDist = 10 =>
        \A t \in Snapshots : \A id \in Range(TreeAt(t).order) :
            ChildlessOfLength(TreeAt(t), id, 15) =>
                /\ Role(t, id) = BRANCH_ONLY
                /\ cls.masterNodes[t][GlobalIdx(id)] = {GlobalIdx(id)}

\* C5, amended: such a branch, with no "lam" label on its points or its parent
\* point, that the classifier reaches, is BRANCH_ONLY and its master-node set is
\* the singleton of its own global index.
C5_LongBranchSelfAnchored ==
    Classified /\ cfg.filoDist = 10 =>
        \A t \in Snapshots : \A id \in Range(TreeAt(t).order) :
            /\ ChildlessOfLength(TreeAt(t), id, 15)
            /\ NoLamella(TreeAt(t), id)
            /\ Reached(TreeAt(t), id)
            => /\ Role(t, id) = BRANCH_ONLY
               /\ cls.masterNodes[t][GlobalIdx(id)] = {GlobalIdx(id)}

\* a reached length-15 childless branch whose column differs from its position in
\* the snapshot's own branch list
C5_Witness ==
    /\ Classified /\ cfg.filoDist = 10
    /\ \E t \in Snapshots : \E id \in Range(TreeAt(t).order) :
          /\ ChildlessOfLength(TreeAt(t), id, 15)
          /\ NoLamella(TreeAt(t), id)
          /\ Reached(TreeAt(t), id)
          /\ TreeAt(t).br[id].parent # SOMA
          /\ GlobalIdx(id) # indexInParent(TreeAt(t), id)
          /\ cls.masterNodes[t][GlobalIdx(id)] = {GlobalIdx(id)}

\* C6: in the final FiloType matrix the cell of a branch with zero points is
\* ABSENT, in every snapshot and wherever the branch is in the tree.
C6_EmptyBranchAbsent ==
    Classified =>
        \A t \in Snapshots :
            \A id \in DOMAIN TreeAt(t).br \cap Range(cls.branchIDList) :
                isEmpty(TreeAt(t).br[id]) => Role(t, id) = ABSENT

\* an empty branch that the classifier reaches, in a snapshot with classified
\* branches
C6_Witness ==
    /\ Classified
    /\ \E t \in Snapshots : \E id \in Range(TreeAt(t).order) :
          /\ isEmpty(TreeAt(t).br[id])
          /\ Reached(TreeAt(t), id)
          /\ Role(t, id) = ABSENT
          /\ \E b \in Columns : cls.filoTypes[t][b] # ABSENT

\* C7: every column index used to write a cell of the FiloType matrix, of the
\* master-node map or of the filo-length matrix for a branch, and every index
\* stored in a master-node set, is the branch's position in the global sorted
\* branch-id list.
C7_GlobalColumnEverywhere ==
    Classified =>
        /\ \A w \in cls.writes \cup lens.writes : w[4] = GlobalIdx(w[3])
        /\ \A r \in cls.stored : r[3] = GlobalIdx(r[2])

\* C8: the filo-length matrix of motility has one column per global branch id,
\* as the masks applied to it have, and every write into it is in range.
C8_FiloLengthShape ==
    Classified /\ pc # "classified" =>
        /\ lens.nBranches = Len(cls.branchIDList)
        /\ \A w \in lens.writes : w[4] \in 0 .. lens.nBranches - 1
        /\ lens.raised # "IndexError"

\* some snapshot of the sequence is entirely empty: no root point, no branches
HasEmptySnapshot == \E t \in Snapshots : ~TreeAt(t).root /\ Len(TreeAt(t).order) = 0

\* the ids of the branches that hang in some snapshot but are in no snapshot's
\* branch list, so not in the global branch-identity index
UnknownIds ==
    UNION {DOMAIN TreeAt(t).br : t \in Snapshots} \ Range(sortedBranchIDList(trees))

\* the last snapshot lists every branch id of the sequence
LastHoldsAll == Len(trees[Len(trees)].order) = Len(sortedBranchIDList(trees))

\* C9: with an entirely empty snapshot in the sequence (every branch of the other
\* snapshots listed, the last snapshot listing every id), the classifier and the
\* motility calculator complete without raising, and the empty snapshot has a
\* row in every output matrix, with all its FiloType cells ABSENT.
C9_EmptySnapshotSkipped ==
    HasEmptySnapshot /\ UnknownIds = {} /\ LastHoldsAll =>
        /\ pc # "raised"
        /\ Classified =>
              \A t \in Snapshots : ~TreeAt(t).root =>
                  \A b \in Columns : cls.filoTypes[t][b] = ABSENT
        /\ pc = "lengths" => DOMAIN lens.filoLengths = Snapshots

\* C10: a branch met during traversal whose id is not in the global index is
\* skipped: no cell is written for it and nothing is raised, whether it hangs off
\* the soma or off a point of another branch.
C10_UnknownBranchSkipped ==
    pc # "start" /\ UnknownIds # {} =>
        /\ cls.raised = ""
        /\ \A w \in cls.writes : w[3] \notin UnknownIds

\* motility has returned (without raising)
Done == pc = "done"

\* the branches whose role in snapshot t is exactly TERMINAL or INTERSTITIAL
PureFilos(t) == {b \in Columns : cls.filoTypes[t][b] \in {TERMINAL, INTERSTITIAL}}

\* C11: the denominator of the aggregate normalized by filo count, for transition
\* t, is the number of branches whose role at snapshot t is exactly TERMINAL or
\* INTERSTITIAL; BRANCH_WITH_TERMINAL and BRANCH_WITH_INTERSTITIAL are not counted.
C11_FiloCountDenominator ==
    Done =>
        \A t \in Transitions :
            /\ mot.nFilo[t] = Cardinality(PureFilos(t))
            /\ mot.rawNFilo[t][2] = Cardinality(PureFilos(t))

\* every raw-motility cell of transition t is NaN
AllNaN(t) == \A b \in DOMAIN mot.raw[t] : mot.raw[t][b] = NaN

\* the sum of the filo lengths that are the denominator of rawFilo
FiloLengthSum(t) ==
    nansum(filoLengthWithNan(lens.filoLengths, mot.raw)[t], lens.nBranches)

\* C12: for a transition whose raw-motility cells are all NaN, or whose
\* denominator is zero, each normalized aggregate of that transition is NaN, and
\* nothing is raised.
C12_NaNPropagates ==
    Done =>
        \A t \in Transitions :
            /\ AllNaN(t) \/ mot.allTDBL[t] = 0 => mot.rawTDBL[t] = FloatNaN
            /\ AllNaN(t) \/ FiloLengthSum(t) = 0 => mot.rawFilo[t] = FloatNaN
            /\ AllNaN(t) \/ mot.nFilo[t] = 0 => mot.rawNFilo[t] = FloatNaN

\* the quotient q is the number n/d (d > 0)
IsRatio(q, n, d) == q[2] > 0 /\ q[1] * d = n * q[2]

\* between snapshots t and t+1 every branch is unchanged, except that branch f,
\* a filopodium by the test of isFilo in both, is longer by L > 0 in t+1
OnlyGrowth(t, f, L) ==
    LET S == TreeAt(t)
        U == TreeAt(t + 1)
    IN  /\ S.root /\ U.root /\ S.rootAnn = U.rootAnn
        /\ S.order = U.order /\ S.rootChildren = U.rootChildren
        /\ DOMAIN S.br = DOMAIN U.br /\ f \in DOMAIN S.br
        /\ \A id \in DOMAIN S.br \ {f} : S.br[id] = U.br[id]
        /\ S.br[f].parent = U.br[f].parent /\ S.br[f].at = U.br[f].at
        /\ S.br[f].anns = U.br[f].anns /\ S.br[f].children = U.br[f].children
        /\ isFilo(S.br[f], cfg.filoDist)[1] /\ isFilo(U.br[f], cfg.filoDist)[1]
        /\ L > 0 /\ Length(U.br[f]) = Length(S.br[f]) + L

NoMasterChange(t) == \A b \in Columns : ~cls.masterChanged[t][b]

C15_ReparentFirstPoint ==
    LET S == rcall.before
        b == parentBranchOf(S, rcall.childPoint)
    IN  /\ rcall.n > 0
        /\ b # None
        /\ pointIndexInParent(S, rcall.childPoint) = 0
        /\ ~isRoot(S, rcall.newParent) /\ ~isLastInBranch(S, rcall.newParent)
        => /\ rcall.did = "moved"
           /\ Cardinality(flattenPoints(rt)) = Cardinality(flattenPoints(S))
           /\ Len(rt.branches) = Len(S.branches)
           /\ rt.parentPoint[b] = rcall.newParent
           /\ S.parentPoint[b] # rcall.newParent => b \notin Range(rt.children[S.parentPoint[b]])
           /\ b \in Range(rt.children[rcall.newParent])

\* the role is TERMINAL, INTERSTITIAL, BRANCH_WITH_TERMINAL or BRANCH_WITH_INTERSTITIAL
BetweenAbsentAndBranchOnly(role) == ABSENT < role /\ role < BRANCH_ONLY

CarriesFilo(role) == role \in {BRANCH_WITH_TERMINAL, BRANCH_WITH_INTERSTITIAL}

\* C16: where masterChanged[t,b] is false, added[t,b] holds exactly when the role
\* goes from ABSENT to one strictly between ABSENT and BRANCH_ONLY, or from
\* BRANCH_ONLY to BRANCH_WITH_TERMINAL or BRANCH_WITH_INTERSTITIAL, and
\* subtracted[t,b] exactly for the reverse changes; transitioned[t,b] holds, in
\* every cell, exactly when the role at t is strictly between ABSENT and
\* BRANCH_ONLY and not above TERMINAL, and the role at t+1 is above TERMINAL.
C16_EventMasks ==
    Classified =>
        \A t \in Transitions : \A b \in Columns :
            LET before == cls.filoTypes[t][b]
                after == cls.filoTypes[t + 1][b]
            IN  /\ ~cls.masterChanged[t][b] =>
                    /\ cls.added[t][b] <=>
                          \/ before = ABSENT /\ BetweenAbsentAndBranchOnly(after)
                          \/ before = BRANCH_ONLY /\ CarriesFilo(after)
                    /\ cls.subtracted[t][b] <=>
                          \/ BetweenAbsentAndBranchOnly(before) /\ after = ABSENT
                          \/ CarriesFilo(before) /\ after = BRANCH_ONLY
                /\ cls.transitioned[t][b] <=>
                      /\ BetweenAbsentAndBranchOnly(before) /\ ~(before > TERMINAL)
                      /\ after > TERMINAL

\* C17: masterChanged[t,b] is true exactly when the master-node set of b at t+1
\* is non-empty and has no element in common with the set at t; so it is true
\* when the set at t is empty and the set at t+1 is not, and false whenever the
\* set at t+1 is empty.
C17_MasterChanged ==
    Classified =>
        \A t \in Transitions : \A b \in Columns :
            LET l1 == cls.masterNodes[t][b]
                l2 == cls.masterNodes[t + 1][b]
            IN  /\ cls.masterChanged[t][b] <=> (l2 # {} /\ l1 \cap l2 = {})
                /\ l1 = {} /\ l2 # {} => cls.masterChanged[t][b]
                /\ l2 = {} => ~cls.masterChanged[t][b]

\* a run where a set appears, a set is lost, and a set is replaced by one that
\* shares an element with it
C17_Witness ==
    /\ Classified
    /\ \E t \in Transitions : \E b \in Columns :
          cls.masterNodes[t][b] = {} /\ cls.masterNodes[t + 1][b] # {}
    /\ \E t \in Transitions : \E b \in Columns :
          cls.masterNodes[t][b] # {} /\ cls.masterNodes[t + 1][b] = {}
    /\ \E t \in Transitions : \E b \in Columns :
          /\ cls.masterNodes[t][b] # cls.masterNodes[t + 1][b]
          /\ cls.masterNodes[t][b] \cap cls.masterNodes[t + 1][b] # {}

\* a child the walk of its parent's points looks at: it has points and its id is
\* in the global index
Looked(T, id) == ~isEmpty(T.br[id]) /\ id \in Range(cls.branchIDList)

\* the branch is a child filopodium of a walked branch
ChildFilo(T, id) ==
    /\ T.br[id].parent # SOMA /\ Walked(T, T.br[id].parent)
    /\ Looked(T, id) /\ isFilo(T.br[id], cfg.filoDist)[1]

\* the branch hangs off a point that carries a child that is not a filopodium, or
\* off a point before one
BeforeNonFilo(T, id) ==
    LET par == T.br[T.br[id].parent]
    IN  \E k \in DOMAIN par.children : \E j \in DOMAIN par.children[k] :
           /\ T.br[id].at <= k
           /\ Looked(T, par.children[k][j])
           /\ ~isFilo(T.br[par.children[k][j]], cfg.filoDist)[1]

\* C18: after classification no child filopodium attached at, or proximal to, a
\* point that carries a non-filopodium child has the role TERMINAL.
C18_NoTerminalBeforeBranch ==
    Classified =>
        \A t \in Snapshots : \A id \in DOMAIN TreeAt(t).br :
            ChildFilo(TreeAt(t), id) /\ BeforeNonFilo(TreeAt(t), id) =>
                Role(t, id) # TERMINAL

\* the stretch of the branch after its last point with children
TrailingSegment(b) == worldLengths(b)[1] - worldLengths(b)[2]

\* the walk of the points of the branch meets a child that is not a filopodium
MeetsNonFilo(T, id) ==
    \E k \in DOMAIN T.br[id].children : \E j \in DOMAIN T.br[id].children[k] :
        /\ Looked(T, T.br[id].children[k][j])
        /\ ~isFilo(T.br[T.br[id].children[k][j]], cfg.filoDist)[1]

\* the children of the last point of the branch that has children, each as its
\* position in the branch list of the snapshot
LastChildren(T, id) ==
    IF lastPointWithChildren(T.br[id]) > 0
    THEN {indexInParent(T, T.br[id].children[lastPointWithChildren(T.br[id])][j]) :
             j \in DOMAIN T.br[id].children[lastPointWithChildren(T.br[id])]}
    ELSE {}

\* C19: a branch whose trailing segment is > 0 and < filoDist is classified
\* BRANCH_WITH_INTERSTITIAL when the walk of its points met a non-filopodium child
\* at any point, BRANCH_WITH_TERMINAL otherwise, and when it has a point with
\* children its master-node set is the children of the last such point.
C19_BranchWithFilo ==
    Classified =>
        \A t \in Snapshots : \A id \in DOMAIN TreeAt(t).br :
            LET T == TreeAt(t)
            IN  /\ Walked(T, id) /\ Reached(T, id) /\ ~isEmpty(T.br[id])
                /\ (T.br[id].parent = SOMA \/ ~isFilo(T.br[id], cfg.filoDist)[1])
                /\ ~(isLamella(T, T.br[id]) /\ ~hasChildren(T.br[id]))
                /\ TrailingSegment(T.br[id]) > 0
                /\ TrailingSegment(T.br[id]) < cfg.filoDist
                => /\ Role(t, id) = IF MeetsNonFilo(T, id) THEN BRANCH_WITH_INTERSTITIAL
                                                            ELSE BRANCH_WITH_TERMINAL
                   /\ hasChildren(T.br[id]) =>
                         cls.masterNodes[t][GlobalIdx(id)] = LastChildren(T, id)

FinalPointLam(b) == b.anns[Len(b.anns)] = "lam"

\* the cell as the lamella rule leaves it: BRANCH_ONLY, and no master node (every
\* other rule that gives a childless branch BRANCH_ONLY stores a master node)
LamellaMarked(t, id) ==
    Role(t, id) = BRANCH_ONLY /\ cls.masterNodes[t][GlobalIdx(id)] = {}

\* C21: a non-empty, non-excluded branch without children is made BRANCH_ONLY by
\* the lamella rule exactly when the annotation of its final point contains
\* "lam": with it the branch is BRANCH_ONLY whatever its length and wherever it
\* is attached, and without it ("lam" only on the parent point) the rule leaves
\* the branch alone.
C21_LamellaRule ==
    Classified =>
        \A t \in Snapshots : \A id \in Range(TreeAt(t).order) :
            LET T == TreeAt(t)
            IN  /\ ~isEmpty(T.br[id]) /\ ~isExcluded(T, T.br[id], cfg)
                /\ ~hasChildren(T.br[id]) /\ Reached(T, id)
                => /\ FinalPointLam(T.br[id]) => Role(t, id) = BRANCH_ONLY
                   /\ ~FinalPointLam(T.br[id]) => ~LamellaMarked(t, id)

\* _calcFiloLengths has run over every snapshot without raising
LengthsDone == lens # NoLengths /\ lens.raised = ""

\* the cell _calcFiloLengths writes for the branch
FiloLengthCell(t, id) == lens.filoLengths[t][indexInParent(TreeAt(t), id)]

\* C22: for every snapshot and every branch the length traversal reaches, the
\* filo-length cell is 0 for an empty branch, NaN for an axon- or basal-excluded
\* one, the length of the branch if it is a filopodium, and otherwise the trailing
\* segment (totalLength - lengthToLastBranch) if that is < filoDist, 0 if it is
\* >= filoDist.
C22_FiloLengthCell ==
    LengthsDone =>
        \A t \in Snapshots : \A id \in Range(TreeAt(t).order) :
            LET T == TreeAt(t)
                b == T.br[id]
            IN  Reached(T, id) =>
                   FiloLengthCell(t, id) =
                      IF isEmpty(b) THEN 0
                      ELSE IF isExcluded(T, b, cfg) THEN NaN
                      ELSE IF isFilo(b, cfg.filoDist)[1] THEN Length(b)
                      ELSE IF TrailingSegment(b) < cfg.filoDist THEN TrailingSegment(b)
                      ELSE 0

\* the sum of row[c] over the columns c <= b whose master nodes did not change in
\* transition t and whose raw motility is a number
RECURSIVE SumOfUnchanged(_, _, _)
SumOfUnchanged(row, t, b) ==
    IF b < 0 THEN 0
    ELSE (IF cls.masterChanged[t][b] \/ mot.raw[t][b] = NaN \/ row[b] = NaN
          THEN 0 ELSE row[b])
         + SumOfUnchanged(row, t, b - 1)

LastColumn == lens.nBranches - 1

\* C23: for every transition t and branch b with masterChanged[t,b], the raw
\* motility cell is NaN, with includeAS off and with includeAS on, and the cell
\* counts neither in the summed motility of the transition nor in the sum of
\* filopodium lengths it is divided by.
C23_MasterChangedExcluded ==
    Done =>
        \A t \in Transitions :
            /\ \A b \in Columns : cls.masterChanged[t][b] => mot.raw[t][b] = NaN
            /\ mot.rawTDBL[t] =
                  floatDiv(SumOfUnchanged(mot.raw[t], t, LastColumn), mot.allTDBL[t])
            /\ mot.rawFilo[t] =
                  floatDiv(SumOfUnchanged(mot.raw[t], t, LastColumn),
                           SumOfUnchanged(lens.filoLengths[t], t, LastColumn))

\* with includeAS on, a masterChanged cell whose lengths differ and whose roles
\* alone would have made it an added or a subtracted cell, in a transition with
\* cells that do count
C23_Witness ==
    /\ Done /\ cfg.includeAS
    /\ \E t \in Transitions : \E b \in Columns :
          /\ cls.masterChanged[t][b]
          /\ lens.filoLengths[t][b] # NaN /\ lens.filoLengths[t + 1][b] # NaN
          /\ lens.filoLengths[t][b] # lens.filoLengths[t + 1][b]
          /\ \/ addedCell(cls.filoTypes[t][b], cls.filoTypes[t + 1][b])
             \/ subtractedCell(cls.filoTypes[t][b], cls.filoTypes[t + 1][b])
          /\ mot.raw[t][b] = NaN
          /\ \E c \in Columns : mot.raw[t][c] # NaN /\ mot.raw[t][c] # 0

====
